---- MODULE Spec2Model ----
(***************************************************************************)
(* A model of egg's src/macros.rs: the code that define_language! expands  *)
(* to (Language::matches / children / children_mut, Display, FromOp) and   *)
(* the rules rewrite! builds (conditions wrapped around a core applier,    *)
(* bidirectional rules).                                                   *)
(*                                                                         *)
(* An operator token is a sequence of one-character strings, so that       *)
(* str::parse and Display are computed character by character.            *)
(***************************************************************************)
EXTENDS Integers, Sequences, FiniteSets, TLC

VARIABLES lang, self, other, made, out, written, rw, app, log

vars == <<lang, self, other, made, out, written, rw, app, log>>

(***************************************************************************)
(* Bounds of the model.                                                    *)
(***************************************************************************)
\* the longest child list handed to from_op
MaxChildren == 3
\* the most `if <cond>` forms given to rewrite!
MaxConds == 2

\* child identifiers
Ids == {0, 1}

(***************************************************************************)
(* Operator tokens.                                                        *)
(***************************************************************************)
TokPi == <<"p", "i">>
TokAdd == <<"+">>
TokSub == <<"-">>
TokMul == <<"*">>
TokDiv == <<"/">>
TokList == <<"l", "i", "s", "t">>
Tokens == {TokPi, TokAdd, TokSub, TokList, <<"+", "7">>, <<"-", "1", "0">>, <<"x">>}

ChildLists == UNION {[1..n -> Ids] : n \in 0..MaxChildren}

(***************************************************************************)
(* str::parse::<i32>() and Display for i32.                                *)
(***************************************************************************)
Digits == <<"0", "1", "2", "3", "4", "5", "6", "7", "8", "9">>

IsDigit(c) == \E i \in 1..10 : Digits[i] = c

DigitVal(c) == (CHOOSE i \in 1..10 : Digits[i] = c) - 1

I32Max == 2147483647
I32Min == -I32Max - 1

\* the digits accumulated as from_str does: checked_mul(10), then checked_add
\* of the digit (checked_sub under a minus sign); ok is false on overflow
RECURSIVE Accumulate(_, _)
Accumulate(s, negative) ==
    IF Len(s) = 0 THEN [ok |-> TRUE, val |-> 0]
    ELSE LET front == Accumulate(SubSeq(s, 1, Len(s) - 1), negative)
             d == DigitVal(s[Len(s)])
         IN  IF ~front.ok THEN front
             ELSE IF negative
             THEN IF front.val >= (I32Min + d + 9) \div 10
                  THEN [ok |-> TRUE, val |-> front.val * 10 - d]
                  ELSE [ok |-> FALSE, val |-> 0]
             ELSE IF front.val <= (I32Max - d) \div 10
                  THEN [ok |-> TRUE, val |-> front.val * 10 + d]
                  ELSE [ok |-> FALSE, val |-> 0]

\* <i32 as FromStr>::from_str: an optional sign, then at least one digit,
\* the value within 32 bits
ParseI32(s) ==
    LET signed == Len(s) > 0 /\ s[1] \in {"+", "-"}
        body == IF signed THEN Tail(s) ELSE s
        wellFormed == Len(body) > 0 /\ \A i \in 1..Len(body) : IsDigit(body[i])
    IN  IF wellFormed THEN Accumulate(body, signed /\ s[1] = "-")
        ELSE [ok |-> FALSE, val |-> 0]

RECURSIVE NatDigits(_)
NatDigits(n) ==
    IF n < 10 THEN <<Digits[n + 1]>>
    ELSE NatDigits(n \div 10) \o <<Digits[(n % 10) + 1]>>

\* the digits of a negative number
RECURSIVE NegDigits(_)
NegDigits(n) ==
    LET d == (10 - (n % 10)) % 10
        rest == (n + d) \div 10
    IN  IF rest = 0 THEN <<Digits[d + 1]>> ELSE NegDigits(rest) \o <<Digits[d + 1]>>

\* <i32 as Display>::fmt
DisplayI32(n) == IF n < 0 THEN <<"-">> \o NegDigits(n) ELSE NatDigits(n)

(***************************************************************************)
(* The data a variant carries: $data is i32, Symbol or CustomNumber.       *)
(***************************************************************************)
NoData == [ty |-> "none", num |-> 0, sym |-> <<>>]

\* op.parse::<$data>()
ParseData(ty, op) ==
    CASE ty = "i32" ->
           [ok |-> ParseI32(op).ok,
            data |-> [ty |-> "i32", num |-> ParseI32(op).val, sym |-> <<>>]]
      [] ty = "CustomNumber" ->
           \* CustomNumber::from_str: s.parse::<i32>().map_err(..)?; Ok(Self { num })
           [ok |-> ParseI32(op).ok,
            data |-> [ty |-> "CustomNumber", num |-> ParseI32(op).val, sym |-> <<>>]]
      [] ty = "Symbol" ->
           \* Symbol parses any operator (as a string)
           [ok |-> TRUE, data |-> [ty |-> "Symbol", num |-> 0, sym |-> op]]

\* ::std::fmt::Display::fmt(data, f)
DisplayData(d) ==
    CASE d.ty = "i32" -> DisplayI32(d.num)
      [] d.ty = "CustomNumber" -> DisplayI32(d.num)
      [] d.ty = "Symbol" -> d.sym
      [] OTHER -> <<>>

(***************************************************************************)
(* LanguageChildren for the $ids types: [Id; 2], Id, Box<[Id]>, Vec<Id>.   *)
(***************************************************************************)
CanBeLength(ids, n) ==
    CASE ids = "[Id; 2]" -> n = 2
      [] ids = "Id" -> n = 1
      [] ids = "Box<[Id]>" -> TRUE
      [] ids = "Vec<Id>" -> TRUE
      [] OTHER -> FALSE

\* the container keeps the items in input order
FromVec(ids, children) == children

LenOf(container) == Len(container)

AsSlice(container) == container

(***************************************************************************)
(* Variant declarations: the four forms __define_language! accepts.        *)
(***************************************************************************)
Str0(string, variant) ==
    [form |-> "str0", string |-> string, variant |-> variant, data |-> "", ids |-> ""]

StrN(string, variant, ids) ==
    [form |-> "strN", string |-> string, variant |-> variant, data |-> "", ids |-> ids]

Data0(variant, data) ==
    [form |-> "data0", string |-> <<>>, variant |-> variant, data |-> data, ids |-> ""]

DataN(variant, data, ids) ==
    [form |-> "dataN", string |-> <<>>, variant |-> variant, data |-> data, ids |-> ids]

\* the example of define_language!'s documentation
SimpleLanguage ==
    << Str0(TokPi, "Pi"),
       StrN(TokAdd, "Add", "[Id; 2]"),
       StrN(TokSub, "Sub", "[Id; 2]"),
       StrN(TokMul, "Mul", "[Id; 2]"),
       StrN(TokList, "List", "Box<[Id]>"),
       StrN(TokSub, "Neg", "Id"),
       Data0("Num", "i32"),
       Data0("Symbol", "Symbol"),
       DataN("Other", "Symbol", "Vec<Id>") >>

\* tests::Simple
Simple ==
    << StrN(TokAdd, "Add", "[Id; 2]"),
       StrN(TokSub, "Sub", "[Id; 2]"),
       StrN(TokMul, "Mul", "[Id; 2]"),
       StrN(TokSub, "Neg", "Id"),
       StrN(TokList, "List", "Box<[Id]>"),
       Str0(TokPi, "Pi"),
       Data0("Int", "i32"),
       Data0("Var", "Symbol") >>

\* tests::GenericLang<CustomNumber>
GenericLang ==
    << Data0("Number", "CustomNumber"),
       StrN(TokAdd, "Add", "[Id; 2]"),
       StrN(TokSub, "Sub", "[Id; 2]"),
       StrN(TokDiv, "Div", "[Id; 2]"),
       StrN(TokMul, "Mult", "[Id; 2]") >>

\* a language that declares its data variants before its literal ones
DataFirst ==
    << Data0("Num", "i32"),
       Data0("Var", "Symbol"),
       Str0(TokPi, "Pi"),
       DataN("Call", "Symbol", "Vec<Id>"),
       StrN(TokAdd, "Add", "[Id; 2]"),
       StrN(TokSub, "Neg", "Id") >>

Languages == {"SimpleLanguage", "Simple", "GenericLang", "DataFirst"}

\* the variants of a language, in declaration order
Variants(name) ==
    CASE name = "SimpleLanguage" -> SimpleLanguage
      [] name = "Simple" -> Simple
      [] name = "GenericLang" -> GenericLang
      [] name = "DataFirst" -> DataFirst

(***************************************************************************)
(* Nodes and the code generated for one variant.                           *)
(***************************************************************************)
Node(variant, data, ids) == [variant |-> variant, data |-> data, ids |-> ids]

NoNode == Node("", NoData, <<>>)

\* std::mem::discriminant
discriminant(n) == n.variant

\* a guard that leaves out can_be_length
FromOpGuard_any_length(v, op, children) ==
    CASE v.form = "str0" -> op = v.string /\ Len(children) = 0
      [] v.form = "strN" -> op = v.string
      [] v.form = "data0" -> ParseData(v.data, op).ok /\ Len(children) = 0
      [] v.form = "dataN" -> ParseData(v.data, op).ok

\* the guard of the variant's from_op arm
FromOpGuard(v, op, children) ==
    CASE v.form = "str0" -> op = v.string /\ Len(children) = 0
      [] v.form = "strN" -> op = v.string /\ CanBeLength(v.ids, Len(children))
      [] v.form = "data0" -> ParseData(v.data, op).ok /\ Len(children) = 0
      [] v.form = "dataN" ->
           ParseData(v.data, op).ok /\ CanBeLength(v.ids, Len(children))

\* the body of the variant's from_op arm
FromOpBody(v, op, children) ==
    CASE v.form = "str0" -> Node(v.variant, NoData, <<>>)
      [] v.form = "strN" -> Node(v.variant, NoData, FromVec(v.ids, children))
      [] v.form = "data0" -> Node(v.variant, ParseData(v.data, op).data, <<>>)
      [] v.form = "dataN" ->
           Node(v.variant, ParseData(v.data, op).data, FromVec(v.ids, children))

\* FromOpError::new(op, children)
FromOpError(op, children) ==
    [ok |-> FALSE, node |-> NoNode, op |-> op, children |-> children]

Ok(n) == [ok |-> TRUE, node |-> n, op |-> <<>>, children |-> <<>>]

RECURSIVE FromOpArms(_, _, _, _)
FromOpArms(l, i, op, children) ==
    IF i > Len(l) THEN FromOpError(op, children)
    ELSE IF FromOpGuard(l[i], op, children) THEN Ok(FromOpBody(l[i], op, children))
    ELSE FromOpArms(l, i + 1, op, children)

\* a from_op whose later arms take precedence
from_op_last_wins(l, op, children) ==
    LET acc == {i \in 1..Len(l) : FromOpGuard(l[i], op, children)}
        last == CHOOSE i \in acc : \A j \in acc : j <= i
    IN  IF acc = {} THEN FromOpError(op, children)
        ELSE Ok(FromOpBody(l[last], op, children))

\* a from_op that lost the arm of the last variant
from_op_without_last_arm(l, op, children) ==
    FromOpArms(SubSeq(l, 1, Len(l) - 1), 1, op, children)

\* FromOp::from_op: match (op, children) { $($from_op)* (op, children) => Err(..) }
from_op(l, op, children) == FromOpArms(l, 1, op, children)

\* the arm of `match self` that a node takes
ArmOf(l, n) == l[CHOOSE i \in 1..Len(l) : l[i].variant = n.variant]

\* arms that compare the children themselves
MatchesArm_compares_ids(v, a, b) ==
    CASE v.form = "str0" -> TRUE
      [] v.form = "strN" -> a.ids = b.ids
      [] v.form = "data0" -> a.data = b.data
      [] v.form = "dataN" -> a.data = b.data /\ a.ids = b.ids

\* the variant's arm of `match (self, other)` in Language::matches
MatchesArm(v, a, b) ==
    CASE v.form = "str0" -> TRUE
      [] v.form = "strN" -> LenOf(a.ids) = LenOf(b.ids)
      [] v.form = "data0" -> a.data = b.data
      [] v.form = "dataN" -> a.data = b.data /\ LenOf(a.ids) = LenOf(b.ids)

\* Language::matches
matches(l, a, b) ==
    /\ discriminant(a) = discriminant(b)
    /\ IF \E i \in 1..Len(l) : l[i].variant = a.variant /\ l[i].variant = b.variant
       THEN MatchesArm(ArmOf(l, a), a, b)
       ELSE FALSE

\* Language::children
children(l, n) ==
    LET v == ArmOf(l, n)
    IN  CASE v.form = "str0" -> <<>>
          [] v.form = "strN" -> AsSlice(n.ids)
          [] v.form = "data0" -> <<>>
          [] v.form = "dataN" -> AsSlice(n.ids)

\* a Display that writes the variant's identifier for a literal variant
fmt_writes_identifier(l, n) ==
    LET v == ArmOf(l, n)
    IN  CASE v.form = "str0" -> <<v.variant>>
          [] v.form = "strN" -> <<v.variant>>
          [] v.form = "data0" -> DisplayData(n.data)
          [] v.form = "dataN" -> DisplayData(n.data)

\* a Display that writes the children after the token
fmt_writes_children(l, n) ==
    LET v == ArmOf(l, n)
    IN  CASE v.form = "str0" -> v.string
          [] v.form = "strN" -> v.string \o [i \in 1..Len(n.ids) |-> Digits[n.ids[i] + 1]]
          [] v.form = "data0" -> DisplayData(n.data)
          [] v.form = "dataN" ->
               DisplayData(n.data) \o [i \in 1..Len(n.ids) |-> Digits[n.ids[i] + 1]]

\* Display::fmt
fmt(l, n) ==
    LET v == ArmOf(l, n)
    IN  CASE v.form = "str0" -> v.string
          [] v.form = "strN" -> v.string
          [] v.form = "data0" -> DisplayData(n.data)
          [] v.form = "dataN" -> DisplayData(n.data)

\* Language::children_mut: the same slots, as a mutable view
children_mut(l, n) ==
    LET v == ArmOf(l, n)
    IN  CASE v.form = "str0" -> <<>>
          [] v.form = "strN" -> AsSlice(n.ids)
          [] v.form = "data0" -> <<>>
          [] v.form = "dataN" -> AsSlice(n.ids)

\* a store that grows the container instead of overwriting the slot
StoreSlot_appends(n, i, v) == [n EXCEPT !.ids = Append(n.ids, v)]

\* node.children_mut()[i] = v: the store goes through to the node's container
StoreSlot(n, i, v) == [n EXCEPT !.ids[i] = v]

(***************************************************************************)
(* The state.  lang: the language in use.  self, other: two nodes of it    *)
(* (NoNode until built).  made: the from_op call that built self, and the  *)
(* node it returned.  out: the last call and what it returned.  written:   *)
(* the value last stored in each child slot of self since it was built.    *)
(* rw, app, log: the rule rewrite! built, the applier layer about to be    *)
(* evaluated, and what has been evaluated so far.                          *)
(***************************************************************************)
NoCall == [call |-> "none"]

NotShown == <<"<", ">">>

Init ==
    /\ lang \in Languages
    /\ self = NoNode
    /\ other = NoNode
    /\ made = NoCall
    /\ out = NoCall
    /\ written = <<>>
    /\ rw = NoCall
    /\ app = NoCall
    /\ log = <<>>

\* let self = L::from_op(op, children)
FromOp(op, ch) ==
    LET r == from_op(Variants(lang), op, ch)
    IN  /\ out' = [call |-> "from_op", op |-> op, children |-> ch, ret |-> r]
        /\ self' = IF r.ok THEN r.node ELSE NoNode
        /\ made' = IF r.ok THEN [call |-> "from_op", op |-> op, children |-> ch, node |-> r.node]
                   ELSE NoCall
        /\ written' = <<>>
        /\ UNCHANGED <<lang, other, rw, app, log>>

\* let other = L::from_op(op, children).unwrap()
FromOpOther(op, ch) ==
    LET r == from_op(Variants(lang), op, ch)
    IN  /\ r.ok
        /\ other' = r.node
        /\ out' = NoCall
        /\ UNCHANGED <<lang, self, made, written, rw, app, log>>

\* self.matches(&other)
Matches ==
    /\ self # NoNode
    /\ other # NoNode
    /\ out' = [call |-> "matches", ret |-> matches(Variants(lang), self, other)]
    /\ UNCHANGED <<lang, self, other, made, written, rw, app, log>>

\* format!("{}", self) and, when there is one, format!("{}", other)
Fmt ==
    /\ self # NoNode
    /\ out' = [call |-> "fmt",
               s |-> fmt(Variants(lang), self),
               o |-> IF other = NoNode THEN NotShown ELSE fmt(Variants(lang), other)]
    /\ UNCHANGED <<lang, self, other, made, written, rw, app, log>>

\* the nodes go out of scope
Drop ==
    /\ self # NoNode
    /\ self' = NoNode
    /\ other' = NoNode
    /\ made' = NoCall
    /\ out' = NoCall
    /\ written' = <<>>
    /\ UNCHANGED <<lang, rw, app, log>>

\* a node is built once, from any token and any child list
MakeSelf ==
    /\ self = NoNode
    /\ \E op \in Tokens, ch \in ChildLists : FromOp(op, ch)

MakeOther ==
    /\ self # NoNode
    /\ other = NoNode
    /\ \E op \in Tokens, ch \in ChildLists : FromOpOther(op, ch)

Next ==
    \/ MakeSelf
    \/ MakeOther
    \/ Matches
    \/ Fmt
    \/ Drop

Spec == Init /\ [][Next]_vars

\* self.children_mut()[i] = v
ChildrenMutWrite(i, v) ==
    /\ i \in 1..Len(children_mut(Variants(lang), self))
    /\ self' = StoreSlot(self, i, v)
    /\ written' = [j \in (DOMAIN written) \cup {i} |-> IF j = i THEN v ELSE written[j]]
    /\ out' = [call |-> "children_mut", slot |-> i, value |-> v]
    /\ UNCHANGED <<lang, other, made, rw, app, log>>

RECURSIVE StoreEach(_, _, _)
StoreEach(n, i, f) ==
    IF i = 0 THEN n ELSE StoreSlot(StoreEach(n, i - 1, f), i, f[n.ids[i]])

\* self.for_each_mut(|id| *id = f(*id)): every slot of children_mut(), in order
ForEachMut(f) ==
    LET slots == 1..Len(children_mut(Variants(lang), self))
    IN  /\ slots # {}
        /\ self' = StoreEach(self, Len(children_mut(Variants(lang), self)), f)
        /\ written' = [j \in slots |-> f[self.ids[j]]]
        /\ out' = [call |-> "for_each_mut"]
        /\ UNCHANGED <<lang, other, made, rw, app, log>>

\* self.children()
Children ==
    /\ self # NoNode
    /\ out' = [call |-> "children", ret |-> children(Variants(lang), self)]
    /\ UNCHANGED <<lang, self, other, made, written, rw, app, log>>

Mutate ==
    /\ self # NoNode
    /\ \E i \in 1..(MaxChildren + 1), v \in Ids : ChildrenMutWrite(i, v)

MutateAll ==
    /\ self # NoNode
    /\ \E f \in [Ids -> Ids] : ForEachMut(f)

NextMut ==
    \/ MakeSelf
    \/ Mutate
    \/ MutateAll
    \/ Children
    \/ Drop

\* one node, built and then mutated in place
SpecMut == Init /\ [][NextMut]_vars

(***************************************************************************)
(* rewrite!: patterns, conditions, and the appliers the macro builds.      *)
(***************************************************************************)
PatternTexts == {"(+ ?a ?b)", "(+ ?b ?a)", "(+ ?a 0)", "?a", "?x"}

\* the pattern variables of a pattern text
PatternVars(text) ==
    CASE text = "(+ ?a ?b)" -> {"?a", "?b"}
      [] text = "(+ ?b ?a)" -> {"?a", "?b"}
      [] text = "(+ ?a 0)" -> {"?a"}
      [] text = "?a" -> {"?a"}
      [] text = "?x" -> {"?x"}

\* text.parse::<Pattern<_>>().unwrap()
PatternFromStr(text) == [kind |-> "pattern", ast |-> text, vars |-> PatternVars(text)]

\* what stands in the $lhs and $rhs positions: a string literal, or an
\* expression that already is a searcher or an applier
Literal(text) == [literal |-> TRUE, text |-> text, value |-> PatternFromStr(text)]

Expr(value) == [literal |-> FALSE, text |-> "", value |-> value]

Sides == {Literal(t) : t \in PatternTexts} \cup {Expr(PatternFromStr("(+ ?a ?b)"))}

\* __rewrite!(@parse Pattern $rhs)
RwParse(side) == IF side.literal THEN PatternFromStr(side.text) ELSE side.value

\* conditions: ConditionEqual::new(p, p) over a pattern p, and one that
\* looks at no pattern variable
ConditionEqual(text) ==
    [name |-> "ConditionEqual " \o text, vars |-> PatternVars(text)]

AlwaysCheck == [name |-> "check", vars |-> {}]

Conditions == {AlwaysCheck, ConditionEqual("?a"), ConditionEqual("?x")}

CondLists == UNION {[1..n -> Conditions] : n \in 0..MaxConds}

\* a wrapping that makes the last condition the outermost
RECURSIVE ApplierWrap_last_outermost(_, _)
ApplierWrap_last_outermost(applier, conds) ==
    IF Len(conds) = 0 THEN applier
    ELSE [kind |-> "conditional",
          condition |-> conds[Len(conds)],
          applier |-> ApplierWrap_last_outermost(applier, SubSeq(conds, 1, Len(conds) - 1))]

\* a wrapping that forgets the conditions
ApplierWrap_drops_conditions(applier, conds) == applier

\* __rewrite!(@applier $applier; $cond, $($conds,)*)
RECURSIVE ApplierWrap(_, _)
ApplierWrap(applier, conds) ==
    IF Len(conds) = 0 THEN applier
    ELSE [kind |-> "conditional",
          condition |-> Head(conds),
          applier |-> ApplierWrap(applier, Tail(conds))]

\* Applier::vars: a pattern's variables; for a ConditionalApplier, those of
\* the inner applier and of the condition
RECURSIVE ApplierVars(_)
ApplierVars(a) ==
    IF a.kind = "conditional" THEN ApplierVars(a.applier) \cup a.condition.vars
    ELSE a.vars

\* Rewrite::new: fails when the applier refers to a variable the searcher
\* does not bind
RewriteNew(name, searcher, applier) ==
    [ok |-> ApplierVars(applier) \subseteq searcher.vars,
     unbound |-> ApplierVars(applier) \ searcher.vars,
     rewrite |-> [name |-> name, searcher |-> searcher, applier |-> applier]]

\* rewrite!(name; lhs => rhs if c1 if c2 ...), up to the unwrap()
rewrite(name, lhs, rhs, conds) ==
    RewriteNew(name, RwParse(lhs), ApplierWrap(RwParse(rhs), conds))

\* a two-way rule whose second direction is not reversed
rewrite_both_same_direction(name, lhs, rhs, conds) ==
    << rewrite(name, lhs, rhs, conds), rewrite(name \o "-rev", lhs, rhs, conds) >>

\* rewrite!(name; lhs <=> rhs if c1 if c2 ...): vec![..., ...], up to the unwrap()s
rewrite_both(name, lhs, rhs, conds) ==
    << rewrite(name, lhs, rhs, conds), rewrite(name \o "-rev", rhs, lhs, conds) >>

NoPanic == [rule |-> "", var |-> ""]

\* the unwrap()s, in order: the rules, or the panic of the first failure
Unwrapped(call, name, lhs, rhs, conds, results) ==
    LET failing == {i \in 1..Len(results) : ~results[i].ok}
        first == CHOOSE i \in failing : \A j \in failing : i <= j
    IN  IF failing = {}
        THEN {[call |-> call, name |-> name, lhs |-> lhs, rhs |-> rhs, conds |-> conds,
               status |-> "ok",
               rules |-> [i \in 1..Len(results) |-> results[i].rewrite],
               panic |-> NoPanic]}
        ELSE {[call |-> call, name |-> name, lhs |-> lhs, rhs |-> rhs, conds |-> conds,
               status |-> "panic",
               rules |-> <<>>,
               panic |-> [rule |-> results[first].rewrite.name, var |-> v]] :
                  v \in results[first].unbound}

RuleNames == {"comm", "bad"}

\* let rule = rewrite!(name; lhs => rhs if ...)
BuildRule(name, lhs, rhs, conds) ==
    /\ rw' \in Unwrapped("rewrite", name, lhs, rhs, conds, <<rewrite(name, lhs, rhs, conds)>>)
    /\ app' = NoCall
    /\ log' = <<>>
    /\ UNCHANGED <<lang, self, other, made, out, written>>

\* let rules = rewrite!(name; lhs <=> rhs if ...)
BuildBoth(name, lhs, rhs, conds) ==
    /\ rw' \in Unwrapped("rewrite_both", name, lhs, rhs, conds, rewrite_both(name, lhs, rhs, conds))
    /\ app' = NoCall
    /\ log' = <<>>
    /\ UNCHANGED <<lang, self, other, made, out, written>>

\* the engine applies rule i to a match: applier.apply_one(..)
StartApply(i) ==
    /\ rw.call # "none"
    /\ rw.status = "ok"
    /\ app.call # "apply"
    /\ i \in 1..Len(rw.rules)
    /\ app' = [call |-> "apply", rule |-> i, at |-> rw.rules[i].applier]
    /\ log' = <<>>
    /\ UNCHANGED <<lang, self, other, made, out, written, rw>>

Finished(i) == [call |-> "applied", rule |-> i, at |-> NoCall]

\* ConditionalApplier::apply_one: check the condition; apply the inner
\* applier if it holds, and return no ids if it does not
EvalCondition(holds) ==
    /\ app.call = "apply"
    /\ app.at.kind = "conditional"
    /\ log' = Append(log, [what |-> app.at.condition.name, result |-> holds])
    /\ app' = IF holds THEN [app EXCEPT !.at = app.at.applier] ELSE Finished(app.rule)
    /\ UNCHANGED <<lang, self, other, made, out, written, rw>>

\* Pattern::apply_one: the core applier
EvalCore ==
    /\ app.call = "apply"
    /\ app.at.kind = "pattern"
    /\ log' = Append(log, [what |-> "apply " \o app.at.ast, result |-> TRUE])
    /\ app' = Finished(app.rule)
    /\ UNCHANGED <<lang, self, other, made, out, written, rw>>

\* the rules go out of scope
DropRules ==
    /\ rw.call # "none"
    /\ rw' = NoCall
    /\ app' = NoCall
    /\ log' = <<>>
    /\ UNCHANGED <<lang, self, other, made, out, written>>

MakeRule ==
    /\ rw.call = "none"
    /\ \E name \in RuleNames, lhs \in Sides, rhs \in Sides, conds \in CondLists :
          BuildRule(name, lhs, rhs, conds)

MakeBoth ==
    /\ rw.call = "none"
    /\ \E name \in RuleNames, lhs \in Sides, rhs \in Sides, conds \in CondLists :
          BuildBoth(name, lhs, rhs, conds)

Apply == \E i \in 1..2 : StartApply(i)

Check == \E holds \in BOOLEAN : EvalCondition(holds)

NextRw ==
    \/ MakeRule
    \/ MakeBoth
    \/ Apply
    \/ Check
    \/ EvalCore
    \/ DropRules

\* rules built by rewrite! and applied by the engine
SpecRw == Init /\ [][NextRw]_vars

(***************************************************************************)
(* Properties of the generated FromOp, Language and Display code.          *)
(***************************************************************************)
\* the variants of l, by position, whose from_op arm accepts (op, children)
Accepting(l, op, ch) == {i \in 1..Len(l) : FromOpGuard(l[i], op, ch)}

Least(S) == CHOOSE i \in S : \A j \in S : i <= j

\* no variant declared before the i-th accepts (op, children)
Unshadowed(l, i, op, ch) == \A j \in 1..(i - 1) : ~FromOpGuard(l[j], op, ch)

\* the number of children a fixed-arity container type holds
FixedArity(ids) == IF ids = "[Id; 2]" THEN 2 ELSE IF ids = "Id" THEN 1 ELSE -1

\* the last variant parses any token and takes any number of children
HasFallback(l) ==
    /\ l[Len(l)].form = "dataN"
    /\ l[Len(l)].data = "Symbol"
    /\ l[Len(l)].ids \in {"Vec<Id>", "Box<[Id]>"}

\* C2: when one or more variants accept (token, children), from_op returns
\* the one declared first among them, and never a later one.
C2_DeclarationOrder ==
    out.call = "from_op" =>
        LET l == Variants(lang)
            acc == Accepting(l, out.op, out.children)
        IN  acc # {} =>
              /\ out.ret.ok
              /\ discriminant(out.ret.node) = l[Least(acc)].variant
              /\ \A j \in acc : j # Least(acc) =>
                     discriminant(out.ret.node) # l[j].variant

\* from_op was called on an input that several variants accept
C2_Witness ==
    /\ out.call = "from_op"
    /\ out.ret.ok
    /\ Cardinality(Accepting(Variants(lang), out.op, out.children)) >= 2

\* C3: matches(a, b) is true exactly when a and b are the same variant with
\* equal data and equal child counts; the child identifiers are not compared.
C3_Matches ==
    out.call = "matches" =>
        LET l == Variants(lang)
        IN  /\ out.ret <=>
                 /\ self.variant = other.variant
                 /\ self.data = other.data
                 /\ Len(children(l, self)) = Len(children(l, other))
            /\ self = other => out.ret
            /\ self.variant # other.variant => ~out.ret

\* two nodes with data and with different children match
C3_Witness ==
    /\ out.call = "matches"
    /\ out.ret
    /\ self.data # NoData
    /\ Len(self.ids) > 0
    /\ self.ids # other.ids

\* C4 as stated: from_op(token, []) returns the literal variant of every
\* childless literal-token variant declared for that token.
C4_EveryLiteralParsesToItself ==
    out.call = "from_op" =>
        LET l == Variants(lang)
        IN  \A i \in 1..Len(l) :
              (l[i].form = "str0" /\ out.op = l[i].string /\ out.children = <<>>) =>
                  /\ out.ret.ok
                  /\ out.ret.node = Node(l[i].variant, NoData, <<>>)

\* C4, amended: from_op(token, []) returns the childless literal-token
\* variant declared for token provided no variant declared before it accepts
\* (token, []), and rendering that variant reproduces token.
C4_LiteralRoundTrip ==
    LET l == Variants(lang)
    IN  /\ out.call = "from_op" =>
              \A i \in 1..Len(l) :
                (/\ l[i].form = "str0"
                 /\ out.op = l[i].string
                 /\ out.children = <<>>
                 /\ Unshadowed(l, i, out.op, out.children)) =>
                    /\ out.ret.ok
                    /\ out.ret.node = Node(l[i].variant, NoData, <<>>)
        /\ (out.call = "fmt" /\ made.call = "from_op") =>
              \A i \in 1..Len(l) :
                (/\ l[i].form = "str0"
                 /\ made.op = l[i].string
                 /\ made.children = <<>>
                 /\ Unshadowed(l, i, made.op, made.children)) =>
                    /\ self = Node(l[i].variant, NoData, <<>>)
                    /\ out.s = made.op

\* a literal variant was built from its token and then rendered
C4_Witness ==
    /\ out.call = "fmt"
    /\ made.call = "from_op"
    /\ \E i \in 1..Len(Variants(lang)) :
          /\ Variants(lang)[i].form = "str0"
          /\ made.op = Variants(lang)[i].string
          /\ made.children = <<>>
          /\ Unshadowed(Variants(lang), i, made.op, made.children)
          /\ self.variant = Variants(lang)[i].variant

\* C7 as stated: a token declared with a fixed-arity container yields that
\* variant whenever the child count is the arity, and never otherwise.
C7_FixedArityAlwaysSelected ==
    out.call = "from_op" =>
        LET l == Variants(lang)
        IN  \A i \in 1..Len(l) :
              (l[i].form = "strN" /\ FixedArity(l[i].ids) > 0 /\ out.op = l[i].string) =>
                  IF Len(out.children) = FixedArity(l[i].ids)
                  THEN /\ out.ret.ok
                       /\ out.ret.node = Node(l[i].variant, NoData, out.children)
                  ELSE ~(out.ret.ok /\ discriminant(out.ret.node) = l[i].variant)

\* C7, amended: for a token declared with a fixed-arity container, from_op
\* yields that variant, holding the children in input order, when the child
\* count is the arity and no variant declared before it accepts the input;
\* with any other child count it never yields that variant.
C7_FixedArity ==
    out.call = "from_op" =>
        LET l == Variants(lang)
        IN  \A i \in 1..Len(l) :
              (l[i].form = "strN" /\ FixedArity(l[i].ids) > 0 /\ out.op = l[i].string) =>
                  IF Len(out.children) = FixedArity(l[i].ids)
                  THEN Unshadowed(l, i, out.op, out.children) =>
                         /\ out.ret.ok
                         /\ out.ret.node = Node(l[i].variant, NoData, out.children)
                  ELSE ~(out.ret.ok /\ discriminant(out.ret.node) = l[i].variant)

\* a two-child variant was built from two different children
C7_Witness ==
    /\ out.call = "from_op"
    /\ out.ret.ok
    /\ Len(out.children) = 2
    /\ out.children[1] # out.children[2]
    /\ \E i \in 1..Len(Variants(lang)) :
          /\ Variants(lang)[i].form = "strN"
          /\ Variants(lang)[i].ids = "[Id; 2]"
          /\ out.op = Variants(lang)[i].string
          /\ discriminant(out.ret.node) = Variants(lang)[i].variant
          /\ \E j \in 1..Len(Variants(lang)) :
                /\ j # i
                /\ Variants(lang)[j].form = "strN"
                /\ Variants(lang)[j].string = out.op

\* C8: from_op fails exactly when no variant accepts (token, children); the
\* error carries the token and the children; a language that ends in a
\* fallback variant never fails.
C8_Errors ==
    out.call = "from_op" =>
        LET l == Variants(lang)
        IN  /\ ~out.ret.ok <=> Accepting(l, out.op, out.children) = {}
            /\ ~out.ret.ok => out.ret.op = out.op /\ out.ret.children = out.children
            /\ HasFallback(l) => out.ret.ok

\* from_op failed on a token with children
C8_Witness ==
    /\ out.call = "from_op"
    /\ ~out.ret.ok
    /\ Len(out.children) > 0

\* C9: a node renders as its variant's token, or as the text of its data,
\* and two nodes of one variant with equal data render alike whatever their
\* children are.
C9_Display ==
    out.call = "fmt" =>
        LET l == Variants(lang)
            v == ArmOf(l, self)
        IN  /\ v.form \in {"str0", "strN"} => out.s = v.string
            /\ v.form \in {"data0", "dataN"} => out.s = DisplayData(self.data)
            /\ (other # NoNode /\ self.variant = other.variant /\ self.data = other.data)
                  => out.s = out.o

\* two nodes that differ only in their children were rendered
C9_Witness ==
    /\ out.call = "fmt"
    /\ other # NoNode
    /\ self.variant = other.variant
    /\ self.data = other.data
    /\ Len(self.ids) = Len(other.ids)
    /\ self.ids # other.ids

(***************************************************************************)
(* Properties of mutation through children_mut.                            *)
(***************************************************************************)
\* C10: after any writes through children_mut or for_each_mut the node has
\* the variant, the data and the number of children it was built with, each
\* written slot holds the value last written to it, and every other slot
\* holds the child it was built with.
C10_MutationPreservesShape ==
    self # NoNode =>
        LET l == Variants(lang)
            now == children(l, self)
            before == children(l, made.node)
        IN  /\ discriminant(self) = discriminant(made.node)
            /\ self.data = made.node.data
            /\ Len(now) = Len(before)
            /\ DOMAIN written \subseteq 1..Len(now)
            /\ \A i \in 1..Len(now) :
                  now[i] = IF i \in DOMAIN written THEN written[i] ELSE before[i]

\* one slot of a node with several children was overwritten with a new value
C10_Witness ==
    /\ self # NoNode
    /\ out.call = "children_mut"
    /\ Len(self.ids) >= 2
    /\ DOMAIN written # 1..Len(self.ids)
    /\ self.ids # made.node.ids

(***************************************************************************)
(* Properties of the rules rewrite! builds.                                *)
(***************************************************************************)
\* the variables the conditions of a list refer to
CondVars(conds) == UNION {conds[i].vars : i \in 1..Len(conds)}

\* the conditions around an applier, outermost first, and the applier inside
RECURSIVE Guards(_)
Guards(a) == IF a.kind = "conditional" THEN <<a.condition>> \o Guards(a.applier) ELSE <<>>

RECURSIVE Core(_)
Core(a) == IF a.kind = "conditional" THEN Core(a.applier) ELSE a

\* what an application of rule i evaluates when every condition holds
Expected(i) ==
    [k \in 1..Len(rw.conds) |-> rw.conds[k].name]
        \o <<"apply " \o (IF rw.call = "rewrite_both" /\ i = 2
                          THEN RwParse(rw.lhs).ast ELSE RwParse(rw.rhs).ast)>>

\* C1: an application evaluates C1, C2, ..., Cn, A in this order, stops at
\* the first condition that fails, and evaluates A only after every
\* condition has held.
C1_ConditionOrder ==
    app.call \in {"apply", "applied"} =>
        LET expected == Expected(app.rule)
        IN  /\ Len(log) <= Len(expected)
            /\ \A k \in 1..Len(log) : log[k].what = expected[k]
            /\ \A k \in 1..(Len(log) - 1) : log[k].result
            /\ app.call = "applied" =>
                  /\ Len(log) > 0
                  /\ log[Len(log)].result => Len(log) = Len(expected)

\* two different conditions held, in the order listed, and then the core
\* applier was evaluated
C1_Witness ==
    /\ app.call = "applied"
    /\ Len(rw.conds) = 2
    /\ rw.conds[1] # rw.conds[2]
    /\ Len(log) = 3
    /\ log[1].what = rw.conds[1].name
    /\ log[2].what = rw.conds[2].name

\* C5: rewrite!(name; P <=> Q) yields two rules, name with searcher P and
\* applier Q and then name-rev with searcher Q and applier P, each under the
\* conditions given; if either direction fails validation, no rule is built.
C5_Bidirectional ==
    rw.call = "rewrite_both" =>
        LET P == RwParse(rw.lhs)
            Q == RwParse(rw.rhs)
            forward == (Q.vars \cup CondVars(rw.conds)) \subseteq P.vars
            backward == (P.vars \cup CondVars(rw.conds)) \subseteq Q.vars
        IN  /\ (forward /\ backward) =>
                  /\ rw.status = "ok"
                  /\ Len(rw.rules) = 2
                  /\ rw.rules[1].name = rw.name
                  /\ rw.rules[1].searcher = P
                  /\ Core(rw.rules[1].applier) = Q
                  /\ Guards(rw.rules[1].applier) = rw.conds
                  /\ rw.rules[2].name = rw.name \o "-rev"
                  /\ rw.rules[2].searcher = Q
                  /\ Core(rw.rules[2].applier) = P
                  /\ Guards(rw.rules[2].applier) = rw.conds
            /\ ~(forward /\ backward) =>
                  /\ rw.status = "panic"
                  /\ rw.rules = <<>>

\* a two-way rule named comm was built from two different patterns
C5_Witness ==
    /\ rw.call = "rewrite_both"
    /\ rw.status = "ok"
    /\ rw.name = "comm"
    /\ rw.rules[2].name = "comm-rev"
    /\ rw.rules[1].searcher # rw.rules[2].searcher

\* C6: rewrite! panics, naming an unbound variable, and builds no rule,
\* whenever the right-hand pattern or a condition refers to a variable the
\* left-hand pattern does not bind; nothing is applied before the panic.
C6_UnboundVar ==
    rw.call = "rewrite" =>
        LET unbound == (RwParse(rw.rhs).vars \cup CondVars(rw.conds)) \ RwParse(rw.lhs).vars
        IN  unbound # {} =>
              /\ rw.status = "panic"
              /\ rw.rules = <<>>
              /\ rw.panic.rule = rw.name
              /\ rw.panic.var \in unbound
              /\ app = NoCall
              /\ log = <<>>

\* a rule whose only unbound variable, ?x, is in a condition was rejected
C6_Witness ==
    /\ rw.call = "rewrite"
    /\ rw.status = "panic"
    /\ rw.panic.var = "?x"
    /\ RwParse(rw.rhs).vars \subseteq RwParse(rw.lhs).vars
    /\ Len(rw.conds) > 0

====
